---- MODULE Spec2Model ----
(***************************************************************************)
(* cmg::L1MuonRecoPropagator (src/src/L1MuonRecoPropagator.cc).            *)
(*                                                                         *)
(* produce() fetches the muon collection, the magnetic field and the two   *)
(* propagators, then extrapolates the inner track of every muon to the     *)
(* planes z = +790, z = -790 and to the cylinder rho = 500.  The module    *)
(* instance keeps the handles and the last TSOS as member fields, so they  *)
(* survive from one event to the next.                                     *)
(*                                                                         *)
(* The propagators and the event setup belong to the host framework.  They *)
(* are represented by a deterministic propagation on an integer grid       *)
(* (Propagate) and by fetches that either deliver the product of the       *)
(* current event or throw.                                                 *)
(***************************************************************************)
EXTENDS Integers, Sequences, FiniteSets, TLC

\* ------------------------------------------------------------------ bounds
MaxEvents == 2     \* produce() calls in one behaviour
MaxMuons  == 2     \* muons in one collection
MaxSteps  == 250   \* path steps a propagation scans for a cylinder crossing

\* ------------------------------------------------------- program constants
ZPlus    == 790
ZMinus   == 0 - 790
RhoMB2   == 500
Sentinel == 0 - 999999

\* ------------------------------------------------------------ input domain
\* Field strengths the setup can hold, in tenths of a tesla.
Fields == {0, 38}

Trk(p, m, q) == [innerPosition |-> p, innerMomentum |-> m, charge |-> q, ndof |-> 10]

TrkAxis  == Trk(<<0, 0, 0>>,   <<0, 0, 50>>,  1)      \* along the beam axis
TrkFwd   == Trk(<<0, 0, 0>>,   <<3, 4, 10>>,  0 - 1)  \* forward, pT = 5
TrkTrans == Trk(<<0, 0, 0>>,   <<0, 2, 0>>,   1)      \* transverse, pT = 2
TrkOut   == Trk(<<600, 0, 0>>, <<50, 0, 0 - 10>>, 1)  \* starts outside rho = 500

Tracks == {TrkAxis, TrkFwd, TrkTrans, TrkOut}

RECURSIVE SeqsUpTo(_, _)
SeqsUpTo(S, n) ==
  IF n = 0 THEN {<<>>}
  ELSE LET shorter == SeqsUpTo(S, n - 1)
       IN  shorter \cup {Append(s, x) : s \in {t \in shorter : Len(t) = n - 1}, x \in S}

Collections == SeqsUpTo(Tracks, MaxMuons)

\* --------------------------------------------------------------- arithmetic
Abs(a) == IF a < 0 THEN 0 - a ELSE a

\* Quotient truncated toward zero.
Div(a, b) ==
  LET q == Abs(a) \div Abs(b)
  IN  IF (a < 0) = (b < 0) THEN q ELSE 0 - q

\* sqrt on the integer grid, by bisection.
RECURSIVE SqrtBetween(_, _, _)
SqrtBetween(n, lo, hi) ==
  IF hi - lo <= 1 THEN lo
  ELSE LET mid == (lo + hi) \div 2
       IN  IF mid <= n \div mid THEN SqrtBetween(n, mid, hi)
           ELSE SqrtBetween(n, lo, mid)

sqrt(n) == SqrtBetween(n, 0, n + 1)

\* ------------------------------------------------------------ value objects
NullHandle == <<>>
Handle(obj) == <<obj>>
IsValidHandle(h) == h # NullHandle
Deref(h) == h[1]

\* A default-constructed TrajectoryStateOnSurface is invalid and has no
\* position.
InvalidTSOS == [valid |-> FALSE, pos |-> <<>>]
ValidTSOS(p) == [valid |-> TRUE, pos |-> p]

Plane(z) == [kind |-> "plane", z |-> z, rho |-> 0]
Cylinder(rho) == [kind |-> "cylinder", z |-> 0, rho |-> rho]

\* The three extrapolations of one loop iteration, in program order.
Targets == << [fn |-> "surf", arg |-> ZPlus],
              [fn |-> "surf", arg |-> ZMinus],
              [fn |-> "cyl",  arg |-> RhoMB2] >>

\* ------------------------------------------------------------ the framework
AlongLabel    == "SmartPropagatorAny"
OppositeLabel == "SmartPropagatorAnyOpposite"

\* The propagator the tracking-components record holds under a label.
ESPropagator(label, es) ==
  [dir   |-> IF label = AlongLabel THEN "alongMomentum" ELSE "oppositeToMomentum",
   field |-> es.field]

\* Deflection of the transverse position in the propagator's field.
Bend(p, B, q) ==
  IF B = 0 THEN p
  ELSE IF q > 0 THEN <<0 - p[2], p[1], p[3]>>
       ELSE <<p[2], 0 - p[1], p[3]>>

\* A track curls inside the cylinder when twice its bending radius
\* (cm, pT / (0.3 B)) is below rho.
Curls(fts, rho) ==
  LET pT == sqrt(fts.momentum[1] * fts.momentum[1] + fts.momentum[2] * fts.momentum[2])
  IN  /\ fts.field # 0
      /\ 2 * ((pT * 10000) \div (3 * fts.field)) < rho

PropagateToPlane(prop, fts, z) ==
  LET s  == IF prop.dir = "alongMomentum" THEN 1 ELSE 0 - 1
      dz == z - fts.position[3]
      pz == fts.momentum[3]
  IN  IF pz = 0 \/ (dz # 0 /\ ((dz * pz > 0) # (s > 0)))
      THEN InvalidTSOS
      ELSE ValidTSOS(Bend(<<fts.position[1] + Div(fts.momentum[1] * dz, pz),
                            fts.position[2] + Div(fts.momentum[2] * dz, pz),
                            z>>, prop.field, fts.charge))

PropagateToCylinder(prop, fts, rho) ==
  LET s == IF prop.dir = "alongMomentum" THEN 1 ELSE 0 - 1
      X(t) == fts.position[1] + s * t * fts.momentum[1]
      Y(t) == fts.position[2] + s * t * fts.momentum[2]
      Hits == {t \in 1..MaxSteps : X(t) * X(t) + Y(t) * Y(t) = rho * rho}
  IN  IF Curls(fts, rho) \/ Hits = {}
      THEN InvalidTSOS
      ELSE LET t == CHOOSE u \in Hits : \A v \in Hits : u <= v
           IN  ValidTSOS(Bend(<<X(t), Y(t), fts.position[3] + s * t * fts.momentum[3]>>,
                              prop.field, fts.charge))

\* Propagator::propagate(FreeTrajectoryState, Surface).
Propagate(prop, fts, surface) ==
  IF surface.kind = "plane"
  THEN PropagateToPlane(prop, fts, surface.z)
  ELSE PropagateToCylinder(prop, fts, surface.rho)

\* ------------------------------------------------------------------- state
VARIABLES
  evt,                 \* produce() calls started so far
  es,                  \* the event setup of the current event
  pc,                  \* position in produce()
  mucand,              \* member: handle of the muon collection
  theBField,           \* member: handle of the magnetic field
  propagatorAlong,     \* member: handle of the along propagator
  propagatorOpposite,  \* member: handle of the opposite propagator
  tsos,                \* member: trajectory state on surface
  imu,                 \* loop iterator (index into the collection)
  k,                   \* which of the three extrapolations of the iteration
  epc,                 \* position in surfExtrapTrkSam / cylExtrapTrkSam
  surface,             \* local myPlane / myCylinder
  recoStart,           \* local recoStart
  recoProp,            \* local recoProp
  derived,             \* locals of the if / else block (xx, yy, rr, cosphi)
  fetchLog,            \* products fetched in this produce() call, in order
  extrapLog,           \* extrapolation calls of this produce() call, in order
  propLog,             \* propagate() invocations of the current extrapolation
  nProp,               \* propagate() invocations of this produce() call
  posReads,            \* validity flags of the TSOSs whose position was read
  retLog,              \* extrapolations returned in this produce() call
  tsosTag,             \* <<evt, imu, k>> of the call that last wrote tsos
  prevEs               \* the event setup of the previous event

members == <<mucand, theBField, propagatorAlong, propagatorOpposite, tsos>>
frame   == <<epc, surface, recoStart, recoProp>>
logs    == <<fetchLog, extrapLog, propLog, nProp, posReads, retLog, tsosTag, prevEs>>
vars    == <<evt, es, pc, mucand, theBField, propagatorAlong, propagatorOpposite,
             tsos, imu, k, epc, surface, recoStart, recoProp, derived,
             fetchLog, extrapLog, propLog, nProp, posReads, retLog, tsosTag, prevEs>>

NoFTS == [position |-> <<>>, momentum |-> <<>>, charge |-> 0, field |-> 0]
NoSurface == [kind |-> "none", z |-> 0, rho |-> 0]
NoLocals == [x \in {} |-> 0]

Init ==
  /\ evt = 0
  /\ es = [field |-> 0]
  /\ pc = "idle"
  /\ mucand = NullHandle
  /\ theBField = NullHandle
  /\ propagatorAlong = NullHandle
  /\ propagatorOpposite = NullHandle
  /\ tsos = InvalidTSOS
  /\ imu = 1
  /\ k = 1
  /\ epc = "none"
  /\ surface = NoSurface
  /\ recoStart = NoFTS
  /\ recoProp = InvalidTSOS
  /\ derived = NoLocals
  /\ fetchLog = <<>>
  /\ extrapLog = <<>>
  /\ propLog = <<>>
  /\ nProp = 0
  /\ posReads = {}
  /\ retLog = <<>>
  /\ tsosTag = <<0, 0, 0>>
  /\ prevEs = [field |-> 0]

\* The framework calls produce() with the setup of a new event.
BeginEvent ==
  /\ pc = "idle"
  /\ evt < MaxEvents
  /\ evt' = evt + 1
  /\ \E B \in Fields : es' = [field |-> B]
  /\ pc' = "getMuons"
  /\ imu' = 1
  /\ k' = 1
  /\ derived' = NoLocals
  /\ fetchLog' = <<>>
  /\ extrapLog' = <<>>
  /\ propLog' = <<>>
  /\ nProp' = 0
  /\ posReads' = {}
  /\ retLog' = <<>>
  /\ prevEs' = es
  /\ UNCHANGED <<members, frame, tsosTag>>

\* iEvent.getByLabel("slimmedMuons", mucand): a missing product leaves the
\* handle invalid and does not throw.
GetMuons ==
  /\ pc = "getMuons"
  /\ \/ \E c \in Collections : mucand' = Handle(c)
     \/ mucand' = NullHandle
  /\ fetchLog' = Append(fetchLog, [label |-> "slimmedMuons", ok |-> IsValidHandle(mucand')])
  /\ pc' = "getField"
  /\ UNCHANGED <<evt, es, theBField, propagatorAlong, propagatorOpposite, tsos,
                 imu, k, frame, derived, extrapLog, propLog, nProp, posReads,
                 retLog, tsosTag, prevEs>>

\* Variant: the field is fetched only while the member handle is empty.
GetField_Cached ==
  /\ pc = "getField"
  /\ \/ /\ theBField' = IF IsValidHandle(theBField) THEN theBField ELSE Handle(es.field)
        /\ fetchLog' = Append(fetchLog, [label |-> "MagneticField", ok |-> TRUE])
        /\ pc' = "getAlong"
     \/ /\ theBField' = theBField
        /\ fetchLog' = Append(fetchLog, [label |-> "MagneticField", ok |-> FALSE])
        /\ pc' = "threw"
  /\ UNCHANGED <<evt, es, mucand, propagatorAlong, propagatorOpposite, tsos,
                 imu, k, frame, derived, extrapLog, propLog, nProp, posReads,
                 retLog, tsosTag, prevEs>>

\* iSetup.get<IdealMagneticFieldRecord>().get(theBField): throws when the
\* record has no field.
GetField ==
  /\ pc = "getField"
  /\ \/ /\ theBField' = Handle(es.field)
        /\ fetchLog' = Append(fetchLog, [label |-> "MagneticField", ok |-> TRUE])
        /\ pc' = "getAlong"
     \/ /\ theBField' = theBField
        /\ fetchLog' = Append(fetchLog, [label |-> "MagneticField", ok |-> FALSE])
        /\ pc' = "threw"
  /\ UNCHANGED <<evt, es, mucand, propagatorAlong, propagatorOpposite, tsos,
                 imu, k, frame, derived, extrapLog, propLog, nProp, posReads,
                 retLog, tsosTag, prevEs>>

\* Variant: a failed fetch is swallowed and the handle of an earlier event
\* stays in use.
GetAlong_Masked ==
  /\ pc = "getAlong"
  /\ \/ /\ propagatorAlong' = Handle(ESPropagator(AlongLabel, es))
        /\ fetchLog' = Append(fetchLog, [label |-> AlongLabel, ok |-> TRUE])
     \/ /\ propagatorAlong' = propagatorAlong
        /\ fetchLog' = Append(fetchLog, [label |-> AlongLabel, ok |-> FALSE])
  /\ pc' = "getOpposite"
  /\ UNCHANGED <<evt, es, mucand, theBField, propagatorOpposite, tsos,
                 imu, k, frame, derived, extrapLog, propLog, nProp, posReads,
                 retLog, tsosTag, prevEs>>

\* iSetup.get<TrackingComponentsRecord>().get("SmartPropagatorAny", propagatorAlong)
GetAlong ==
  /\ pc = "getAlong"
  /\ \/ /\ propagatorAlong' = Handle(ESPropagator(AlongLabel, es))
        /\ fetchLog' = Append(fetchLog, [label |-> AlongLabel, ok |-> TRUE])
        /\ pc' = "getOpposite"
     \/ /\ propagatorAlong' = propagatorAlong
        /\ fetchLog' = Append(fetchLog, [label |-> AlongLabel, ok |-> FALSE])
        /\ pc' = "threw"
  /\ UNCHANGED <<evt, es, mucand, theBField, propagatorOpposite, tsos,
                 imu, k, frame, derived, extrapLog, propLog, nProp, posReads,
                 retLog, tsosTag, prevEs>>

\* iSetup.get<TrackingComponentsRecord>().get("SmartPropagatorAnyOpposite", propagatorOpposite)
GetOpposite ==
  /\ pc = "getOpposite"
  /\ \/ /\ propagatorOpposite' = Handle(ESPropagator(OppositeLabel, es))
        /\ fetchLog' = Append(fetchLog, [label |-> OppositeLabel, ok |-> TRUE])
        /\ pc' = "forInit"
     \/ /\ propagatorOpposite' = propagatorOpposite
        /\ fetchLog' = Append(fetchLog, [label |-> OppositeLabel, ok |-> FALSE])
        /\ pc' = "threw"
  /\ UNCHANGED <<evt, es, mucand, theBField, propagatorAlong, tsos,
                 imu, k, frame, derived, extrapLog, propLog, nProp, posReads,
                 retLog, tsosTag, prevEs>>

\* imu = mucand->begin(): dereferencing an invalid handle throws.
ForInit ==
  /\ pc = "forInit"
  /\ imu' = 1
  /\ pc' = IF IsValidHandle(mucand) THEN "forTest" ELSE "threw"
  /\ UNCHANGED <<evt, es, members, k, frame, derived, logs>>

\* imu != mucand->end()
ForTest ==
  /\ pc = "forTest"
  /\ pc' = IF imu <= Len(Deref(mucand)) THEN "call" ELSE "done"
  /\ k' = 1
  /\ UNCHANGED <<evt, es, members, imu, frame, derived, logs>>

\* reco::TrackRef tr_mu = imu->innerTrack()
tr_mu == Deref(mucand)[imu]

freeTrajStateMuon(track) ==
  [position |-> track.innerPosition,
   momentum |-> track.innerMomentum,
   charge   |-> track.charge,
   field    |-> Deref(theBField)]

\* Variant: the fallback is taken whatever the along result is.
AlongFailed_Always(prop) == TRUE

\* The test of line 185 / 201.
AlongFailed(prop) == ~prop.valid

\* ---- surfExtrapTrkSam(track, z)
SurfEnter ==
  /\ pc = "call"
  /\ Targets[k].fn = "surf"
  /\ surface' = Plane(Targets[k].arg)
  /\ recoStart' = freeTrajStateMuon(tr_mu)
  /\ recoProp' = InvalidTSOS
  /\ epc' = "along"
  /\ pc' = "inCall"
  /\ propLog' = <<>>
  /\ extrapLog' = Append(extrapLog, [imu |-> imu, fn |-> "surf", arg |-> Targets[k].arg])
  /\ UNCHANGED <<evt, es, members, imu, k, derived, fetchLog, nProp, posReads,
                 retLog, tsosTag, prevEs>>

\* Variant: a valid member tsos is reused instead of propagating.
SurfAlong_ReusesTsos ==
  /\ pc = "inCall"
  /\ surface.kind = "plane"
  /\ epc = "along"
  /\ recoProp' = IF tsos.valid THEN tsos
                 ELSE Propagate(Deref(propagatorAlong), recoStart, surface)
  /\ propLog' = Append(propLog, [via |-> "along", result |-> recoProp'])
  /\ nProp' = nProp + 1
  /\ epc' = IF AlongFailed(recoProp') THEN "opposite" ELSE "ret"
  /\ UNCHANGED <<evt, es, pc, members, imu, k, surface, recoStart, derived,
                 fetchLog, extrapLog, posReads, retLog, tsosTag, prevEs>>

SurfAlong ==
  /\ pc = "inCall"
  /\ surface.kind = "plane"
  /\ epc = "along"
  /\ recoProp' = Propagate(Deref(propagatorAlong), recoStart, surface)
  /\ propLog' = Append(propLog, [via |-> "along", result |-> recoProp'])
  /\ nProp' = nProp + 1
  /\ epc' = IF AlongFailed(recoProp') THEN "opposite" ELSE "ret"
  /\ UNCHANGED <<evt, es, pc, members, imu, k, surface, recoStart, derived,
                 fetchLog, extrapLog, posReads, retLog, tsosTag, prevEs>>

SurfOpposite ==
  /\ pc = "inCall"
  /\ surface.kind = "plane"
  /\ epc = "opposite"
  /\ recoProp' = Propagate(Deref(propagatorOpposite), recoStart, surface)
  /\ propLog' = Append(propLog, [via |-> "opposite", result |-> recoProp'])
  /\ nProp' = nProp + 1
  /\ epc' = "ret"
  /\ UNCHANGED <<evt, es, pc, members, imu, k, surface, recoStart, derived,
                 fetchLog, extrapLog, posReads, retLog, tsosTag, prevEs>>

\* return recoProp, assigned to the member tsos by the caller; the locals of
\* the call end here.
SurfReturn ==
  /\ pc = "inCall"
  /\ surface.kind = "plane"
  /\ epc = "ret"
  /\ tsos' = recoProp
  /\ epc' = "none"
  /\ surface' = NoSurface
  /\ recoStart' = NoFTS
  /\ recoProp' = InvalidTSOS
  /\ pc' = "test"
  /\ tsosTag' = <<evt, imu, k>>
  /\ retLog' = Append(retLog, [track |-> tr_mu, fn |-> Targets[k].fn,
                               arg |-> Targets[k].arg, ret |-> recoProp])
  /\ UNCHANGED <<evt, es, mucand, theBField, propagatorAlong, propagatorOpposite,
                 imu, k, derived, fetchLog, extrapLog, propLog, nProp, posReads, prevEs>>

\* ---- cylExtrapTrkSam(track, rho)
CylEnter ==
  /\ pc = "call"
  /\ Targets[k].fn = "cyl"
  /\ surface' = Cylinder(Targets[k].arg)
  /\ recoStart' = freeTrajStateMuon(tr_mu)
  /\ recoProp' = InvalidTSOS
  /\ epc' = "along"
  /\ pc' = "inCall"
  /\ propLog' = <<>>
  /\ extrapLog' = Append(extrapLog, [imu |-> imu, fn |-> "cyl", arg |-> Targets[k].arg])
  /\ UNCHANGED <<evt, es, members, imu, k, derived, fetchLog, nProp, posReads,
                 retLog, tsosTag, prevEs>>

CylAlong ==
  /\ pc = "inCall"
  /\ surface.kind = "cylinder"
  /\ epc = "along"
  /\ recoProp' = Propagate(Deref(propagatorAlong), recoStart, surface)
  /\ propLog' = Append(propLog, [via |-> "along", result |-> recoProp'])
  /\ nProp' = nProp + 1
  /\ epc' = IF AlongFailed(recoProp') THEN "opposite" ELSE "ret"
  /\ UNCHANGED <<evt, es, pc, members, imu, k, surface, recoStart, derived,
                 fetchLog, extrapLog, posReads, retLog, tsosTag, prevEs>>

\* Variant: the fallback of the cylinder extrapolation repeats the along
\* propagator.
CylOpposite_UsesAlong ==
  /\ pc = "inCall"
  /\ surface.kind = "cylinder"
  /\ epc = "opposite"
  /\ recoProp' = Propagate(Deref(propagatorAlong), recoStart, surface)
  /\ propLog' = Append(propLog, [via |-> "opposite", result |-> recoProp'])
  /\ nProp' = nProp + 1
  /\ epc' = "ret"
  /\ UNCHANGED <<evt, es, pc, members, imu, k, surface, recoStart, derived,
                 fetchLog, extrapLog, posReads, retLog, tsosTag, prevEs>>

CylOpposite ==
  /\ pc = "inCall"
  /\ surface.kind = "cylinder"
  /\ epc = "opposite"
  /\ recoProp' = Propagate(Deref(propagatorOpposite), recoStart, surface)
  /\ propLog' = Append(propLog, [via |-> "opposite", result |-> recoProp'])
  /\ nProp' = nProp + 1
  /\ epc' = "ret"
  /\ UNCHANGED <<evt, es, pc, members, imu, k, surface, recoStart, derived,
                 fetchLog, extrapLog, posReads, retLog, tsosTag, prevEs>>

CylReturn ==
  /\ pc = "inCall"
  /\ surface.kind = "cylinder"
  /\ epc = "ret"
  /\ tsos' = recoProp
  /\ epc' = "none"
  /\ surface' = NoSurface
  /\ recoStart' = NoFTS
  /\ recoProp' = InvalidTSOS
  /\ pc' = "test"
  /\ tsosTag' = <<evt, imu, k>>
  /\ retLog' = Append(retLog, [track |-> tr_mu, fn |-> Targets[k].fn,
                               arg |-> Targets[k].arg, ret |-> recoProp])
  /\ UNCHANGED <<evt, es, mucand, theBField, propagatorAlong, propagatorOpposite,
                 imu, k, derived, fetchLog, extrapLog, propLog, nProp, posReads, prevEs>>

\* ---- the if / else after each extrapolation
\* Variant: the validity test is dropped.
TakesValidBranch_Always(t) == TRUE

\* if (tsos.isValid())
TakesValidBranch(t) == t.valid

\* cosphi = xx / rr in double arithmetic: 0 / 0 is NaN, no trap.
Divide(xx, rr) ==
  IF rr = 0 THEN [nan |-> TRUE, milli |-> 0]
  ELSE [nan |-> FALSE, milli |-> Div(1000 * xx, rr)]

\* Variant: the radius forgets yy.
Radius_ForgetsY(xx, yy) == sqrt(xx * xx)

Radius(xx, yy) == sqrt(xx * xx + yy * yy)

\* What tsos.globalPosition() can deliver: the position of a valid state;
\* for an invalid state the read is undefined and may deliver anything.
Garbage == {<<0, 0, 0>>, <<1, 0 - 1, 7>>}
globalPosition(t) == IF t.valid THEN {t.pos} ELSE Garbage

DeriveLocals(p) ==
  LET xx == p[1]
      yy == p[2]
      rr == Radius(xx, yy)
  IN  [xx |-> xx, yy |-> yy, rr |-> rr, cosphi |-> Divide(xx, rr)]

ValidBranch ==
  /\ pc = "test"
  /\ TakesValidBranch(tsos)
  /\ posReads' = posReads \cup {tsos.valid}
  /\ \E p \in globalPosition(tsos) : derived' = DeriveLocals(p)
  /\ pc' = "endBlock"
  /\ UNCHANGED <<evt, es, members, imu, k, frame, fetchLog, extrapLog, propLog, nProp,
                 retLog, tsosTag, prevEs>>

\* Variant: an invalid state ends the loop.
ElseBranch_Aborts ==
  /\ pc = "test"
  /\ ~TakesValidBranch(tsos)
  /\ derived' = NoLocals
  /\ pc' = "done"
  /\ UNCHANGED <<evt, es, members, imu, k, frame, logs>>

\* The else block is empty: its two push_back(-999999) are commented out.
ElseBranch ==
  /\ pc = "test"
  /\ ~TakesValidBranch(tsos)
  /\ derived' = NoLocals
  /\ pc' = "endBlock"
  /\ UNCHANGED <<evt, es, members, imu, k, frame, logs>>

\* Leave the block: on to the next extrapolation, or imu++ after the third.
EndBlock ==
  /\ pc = "endBlock"
  /\ derived' = NoLocals
  /\ IF k < Len(Targets)
     THEN /\ k' = k + 1
          /\ imu' = imu
          /\ pc' = "call"
     ELSE /\ k' = 1
          /\ imu' = imu + 1
          /\ pc' = "forTest"
  /\ UNCHANGED <<evt, es, members, frame, logs>>

\* produce() returns, or its exception reaches the framework.
EndEvent ==
  /\ pc \in {"done", "threw"}
  /\ pc' = "idle"
  /\ UNCHANGED <<evt, es, members, imu, k, frame, derived, logs>>

ProduceStep ==
  \/ GetMuons \/ GetField \/ GetAlong \/ GetOpposite
  \/ ForInit \/ ForTest
  \/ SurfEnter \/ SurfAlong \/ SurfOpposite \/ SurfReturn
  \/ CylEnter \/ CylAlong \/ CylOpposite \/ CylReturn
  \/ ValidBranch \/ ElseBranch \/ EndBlock
  \/ EndEvent

Next == BeginEvent \/ ProduceStep

Spec == Init /\ [][Next]_vars

\* produce() is synchronous: once called it keeps running until it returns
\* or throws.
FairSpec == Spec /\ WF_vars(ProduceStep)

TypeOK ==
  /\ evt \in 0..MaxEvents
  /\ pc \in {"idle", "getMuons", "getField", "getAlong", "getOpposite", "forInit",
             "forTest", "call", "inCall", "test", "endBlock", "done", "threw"}
  /\ k \in 1..Len(Targets)
  /\ epc \in {"none", "along", "opposite", "ret"}
  /\ tsos.valid \in BOOLEAN

\* ================================================================== claims
SurfaceOf(target) ==
  IF target.fn = "surf" THEN Plane(target.arg) ELSE Cylinder(target.arg)

FetchOrder == <<"slimmedMuons", "MagneticField", AlongLabel, OppositeLabel>>

\* The extrapolation calls a collection of n tracks has to lead to.
ExpectedCalls(n) ==
  [i \in 1..(Len(Targets) * n) |->
     [imu |-> ((i - 1) \div Len(Targets)) + 1,
      fn  |-> Targets[((i - 1) % Len(Targets)) + 1].fn,
      arg |-> Targets[((i - 1) % Len(Targets)) + 1].arg]]

\* What one (track, target) pair yields under the setup of one event.
ExpectedTSOS(setup, track, target) ==
  LET fts == [position |-> track.innerPosition, momentum |-> track.innerMomentum,
              charge |-> track.charge, field |-> setup.field]
      A == Propagate(ESPropagator(AlongLabel, setup), fts, SurfaceOf(target))
      O == Propagate(ESPropagator(OppositeLabel, setup), fts, SurfaceOf(target))
  IN  IF A.valid THEN A ELSE O

InExtrapolation == pc = "inCall" \/ pc = "test"

\* C1: in every call of surfExtrapTrkSam / cylExtrapTrkSam the along
\* propagator is invoked first and exactly once; the opposite propagator is
\* invoked iff the along result is invalid, and then exactly once, so a call
\* makes at most two propagation attempts.
C1_AlongFirstThenFallback ==
  InExtrapolation =>
    /\ Len(propLog) <= 2
    /\ (epc = "along") = (propLog = <<>>)
    /\ Len(propLog) >= 1 => propLog[1].via = "along"
    /\ Len(propLog) = 2 => propLog[2].via = "opposite" /\ ~propLog[1].result.valid
    /\ (epc \in {"ret", "none"}) =>
         /\ Len(propLog) >= 1
         /\ (Len(propLog) = 2) = (~propLog[1].result.valid)

C1_Witness ==
  /\ pc = "test"
  /\ Len(propLog) = 2
  /\ propLog[2].result.valid

\* C2: the returned TSOS is the along result when that is valid, and
\* otherwise exactly what the opposite propagator yields for the same free
\* state and surface; it is valid iff one of the two directions is valid.
C2_ReturnsAlongElseOpposite ==
  /\ (pc = "inCall" /\ epc = "ret") =>
       LET A == Propagate(Deref(propagatorAlong), recoStart, surface)
           O == Propagate(Deref(propagatorOpposite), recoStart, surface)
       IN  /\ recoProp = IF A.valid THEN A ELSE O
           /\ recoProp.valid = (A.valid \/ O.valid)
           /\ recoStart = freeTrajStateMuon(tr_mu)
           /\ surface = SurfaceOf(Targets[k])
  /\ pc = "test" =>
       /\ retLog # <<>>
       /\ tsos = retLog[Len(retLog)].ret
       /\ tsos = propLog[Len(propLog)].result

C2_Witness ==
  /\ pc = "inCall"
  /\ epc = "ret"
  /\ Len(propLog) = 2
  /\ ~recoProp.valid

\* C3: for an invalid extrapolation the derived output of produce() equals
\* the sentinel -999999, never a computed number and never a missing value.
C3_InvalidYieldsSentinel ==
  (pc = "endBlock" /\ ~tsos.valid) =>
    /\ DOMAIN derived # {}
    /\ \A f \in DOMAIN derived : derived[f] = Sentinel

\* C4: every track of the collection, in collection order, gets exactly the
\* three extrapolations plane +790, plane -790, cylinder 500; an invalid
\* result skips nothing, so N tracks lead to 3N calls and the loop ends.
C4_ThreePerTrackInOrder ==
  /\ [](pc \in {"forTest", "call", "inCall", "test", "endBlock", "done"} =>
          /\ Len(extrapLog) <= Len(Targets) * Len(Deref(mucand))
          /\ extrapLog = SubSeq(ExpectedCalls(Len(Deref(mucand))), 1, Len(extrapLog))
          /\ pc = "done" => extrapLog = ExpectedCalls(Len(Deref(mucand))))
  /\ ((pc = "forTest") ~> (pc = "done"))

C4_Witness ==
  /\ pc = "done"
  /\ Len(extrapLog) = 2 * Len(Targets)
  /\ ~retLog[1].ret.valid

\* C5: the position of a TSOS is read only when its validity flag is true.
C5_ReadsOnlyValid == \A v \in posReads : v = TRUE

C5_Witness ==
  /\ pc = "endBlock"
  /\ posReads = {TRUE}
  /\ \E i \in 1..Len(retLog) : ~retLog[i].ret.valid

\* C6: the TSOS produce() inspects for a (track, target) pair was written by
\* the extrapolation of that pair in this iteration, and is what the track,
\* the target and the setup of the current event determine.
C6_NoCarriedState ==
  pc = "test" =>
    /\ tsosTag = <<evt, imu, k>>
    /\ tsos = ExpectedTSOS(es, tr_mu, Targets[k])

C6_Witness ==
  /\ pc = "test"
  /\ evt = 2
  /\ prevEs.field # es.field
  /\ imu = 1
  /\ k = 1
  /\ tsos.valid

\* C7: two calls of surfExtrapTrkSam with the same track and the same z,
\* under unchanged handles, return the same validity and position.
C7_PlaneExtrapolationIdempotent ==
  \A i, j \in 1..Len(retLog) :
    (/\ retLog[i].fn = "surf"
     /\ retLog[j].fn = "surf"
     /\ retLog[i].track = retLog[j].track
     /\ retLog[i].arg = retLog[j].arg) => retLog[i].ret = retLog[j].ret

C7_Witness ==
  \E i, j \in 1..Len(retLog) :
    /\ i < j
    /\ retLog[i].fn = "surf"
    /\ retLog[j].fn = "surf"
    /\ retLog[i].track = retLog[j].track
    /\ retLog[i].arg = retLog[j].arg
    /\ retLog[j].ret.valid

\* C8: the collection, the field and the two propagators are each fetched
\* once, before the first propagation of the event, "SmartPropagatorAny" as
\* along and "SmartPropagatorAnyOpposite" as opposite; a failed fetch of the
\* field or of a propagator ends produce() with no track extrapolated.
C8_FetchOnceFailFast ==
  /\ Len(fetchLog) <= Len(FetchOrder)
  /\ \A i \in 1..Len(fetchLog) : fetchLog[i].label = FetchOrder[i]
  /\ (nProp > 0 \/ extrapLog # <<>>) =>
       /\ Len(fetchLog) = Len(FetchOrder)
       /\ \A i \in 2..Len(fetchLog) : fetchLog[i].ok
       /\ theBField = Handle(es.field)
       /\ propagatorAlong = Handle(ESPropagator(AlongLabel, es))
       /\ propagatorOpposite = Handle(ESPropagator(OppositeLabel, es))
       /\ Deref(propagatorAlong).dir = "alongMomentum"
       /\ Deref(propagatorOpposite).dir = "oppositeToMomentum"
  /\ (\E i \in 2..Len(fetchLog) : ~fetchLog[i].ok) =>
       /\ pc \in {"threw", "idle"}
       /\ nProp = 0
       /\ extrapLog = <<>>

C8_Witness ==
  /\ pc = "threw"
  /\ \E i \in 2..Len(fetchLog) : ~fetchLog[i].ok
  /\ IsValidHandle(propagatorAlong)
  /\ IsValidHandle(propagatorOpposite)
  /\ Deref(propagatorOpposite).field # es.field

\* C9: for a valid TSOS the radius rr is the square root of x*x + y*y of the
\* position of the TSOS of that same target, and rr >= 0.
C9_RadiusFromSamePosition ==
  (pc = "endBlock" /\ tsos.valid) =>
    LET x == tsos.pos[1]
        y == tsos.pos[2]
    IN  /\ tsosTag = <<evt, imu, k>>
        /\ derived.xx = x
        /\ derived.yy = y
        /\ derived.rr >= 0
        /\ derived.rr * derived.rr <= x * x + y * y
        /\ x * x + y * y < (derived.rr + 1) * (derived.rr + 1)

C9_Witness ==
  /\ pc = "endBlock"
  /\ tsos.valid
  /\ derived.rr > 0
  /\ derived.yy # 0

\* C10: whenever cosphi = xx / rr is computed for a valid TSOS the divisor
\* rr is not zero.
C10_DivisorNonZero ==
  (pc = "endBlock" /\ tsos.valid) => derived.rr # 0
====
